---- MODULE Spec2Model ----
(***************************************************************************)
(* A model of the FungiGPT training pipeline (drakeprg/echgpt):            *)
(*   - the admin layer's run-status record and its background task         *)
(*     (src/src/admin/main.py: training_state, start_training,             *)
(*     run_training);                                                      *)
(*   - the dataset validator (src/src/model/train.py: validate_dataset);   *)
(*   - the train pipeline and the export step that follows it              *)
(*     (src/src/model/train.py: train, src/src/model/export_tflite.py),    *)
(*     once with each model.fit call as one step and once with the calls   *)
(*     unfolded into epochs;                                               *)
(*   - the two preprocessing functions (src/src/model/preprocess.py).      *)
(* Each part has its own specification over the shared variables; the      *)
(* variables of the other parts stay at their initial values.              *)
(***************************************************************************)
EXTENDS Integers, Sequences, FiniteSets, Bags, TLC

VARIABLES
    training_state,   \* main.py:93 the global run-status record
    tasks,            \* the run_training background tasks, in the order they were added
    clock,            \* datetime.now(): every read is later than the one before
    last_response,    \* what the last POST /api/training/start answered
    fs,               \* the dataset directory tree given to validate_dataset / train
    validation,       \* what validate_dataset returned
    pc,               \* the step train.py / export_tflite.py is about to take
    raised,           \* the exception that ended train or export_all
    removed,          \* what remove_corrupted_images returned
    class_indices,    \* train_gen.class_indices: the class of each output index
    model,            \* the Keras model in memory
    out,              \* the files of the output directory
    verified,         \* what verify_tflite_model saw and reported, per call
    stdout,           \* the numbers of the steps train.py announced ("1. Validating ...")
    fit,              \* the state of model.fit and of its callbacks
    history,          \* history1, history2 and combined_history
    image,            \* the source image given to the preprocessing functions
    by_path,          \* what preprocess_image returned
    by_bytes          \* what preprocess_image_bytes returned

vars == <<training_state, tasks, clock, last_response,
          fs, validation, pc, raised, removed, class_indices, model, out, verified,
          stdout, fit, history, image, by_path, by_bytes>>

adminVars == <<training_state, tasks, clock, last_response>>
trainVars == <<pc, raised, removed, class_indices, model, out, verified, stdout, fit, history>>
prepVars == <<image, by_path, by_bytes>>
dataVars == <<fs, validation, trainVars, prepVars>>

\* Python's None where the other values are strings
None == "None"

\* Python's None where the other values are clock readings (all >= 1)
NoTime == 0

(***************************************************************************)
(* Bounds of the model.                                                    *)
(***************************************************************************)
\* accepted start requests (background tasks added) in one execution
MaxTasks == 2

(***************************************************************************)
(* The admin layer: training_state, start_training, run_training.          *)
(***************************************************************************)

\* main.py:93-100
InitialTrainingState ==
    [status |-> "idle", message |-> "No training in progress",
     started_at |-> NoTime, completed_at |-> NoTime,
     accuracy |-> None, val_accuracy |-> None]

Statuses == {"idle", "starting", "running", "completed", "failed"}

\* A background task: where run_training stands, and the train subprocess' outcome.
NewTask == [pc |-> "scheduled", outcome |-> None, export_ran |-> FALSE]

\* The tasks that were added and have not returned from run_training.
ActiveTasks == {i \in DOMAIN tasks : tasks[i].pc # "done"}

\* The tasks that are inside run_training (entered, not returned).
ExecutingTasks == {i \in DOMAIN tasks : tasks[i].pc \notin {"scheduled", "done"}}

\* main.py:522 the guard of start_training: only status "running" rejects
StartRejected == training_state["status"] = "running"

\* main.py:519-529 POST /api/training/start (an async handler without await:
\* it runs to its end on the event loop; the task it adds starts after the
\* response was sent, in a threadpool thread).
start_training ==
    IF StartRejected
    THEN /\ last_response' = "400 Training already in progress"
         /\ UNCHANGED <<training_state, tasks, clock, dataVars>>
    ELSE /\ Len(tasks) < MaxTasks
         /\ tasks' = Append(tasks, NewTask)
         /\ training_state' = [training_state EXCEPT
                                  !["status"] = "starting",
                                  !["message"] = "Training starting..."]
         /\ last_response' = "200 Training started"
         /\ UNCHANGED <<clock, dataVars>>

\* One statement of run_training by task i: from pc `from` to pc `to`,
\* writing `field` of training_state.
Write(i, from, to, field, value) ==
    /\ tasks[i].pc = from
    /\ tasks' = [tasks EXCEPT ![i].pc = to]
    /\ training_state' = [training_state EXCEPT ![field] = value]

\* main.py:143
SetRunning(i) ==
    /\ Write(i, "scheduled", "l144", "status", "running")
    /\ UNCHANGED <<clock, last_response, dataVars>>

\* main.py:144
SetRunningMessage(i) ==
    /\ Write(i, "l144", "l145", "message", "Training in progress...")
    /\ UNCHANGED <<clock, last_response, dataVars>>

\* main.py:145
SetStartedAt(i) ==
    /\ Write(i, "l145", "train", "started_at", clock + 1)
    /\ clock' = clock + 1
    /\ UNCHANGED <<last_response, dataVars>>

\* main.py:149-156 the train subprocess ends: with return code 0, with another
\* return code, or cut off by the timeout (subprocess.TimeoutExpired).
TrainOutcomes == {"rc0", "rc1", "timeout"}

TrainSubprocessEnds(i) ==
    /\ tasks[i].pc = "train"
    /\ \E o \in TrainOutcomes :
          tasks' = [tasks EXCEPT ![i].outcome = o,
                                 ![i].pc = CASE o = "rc0" -> "l159"
                                             [] o = "rc1" -> "l171"
                                             [] OTHER -> "l175"]
    /\ UNCHANGED <<training_state, clock, last_response, dataVars>>

\* main.py:159
SetCompleted(i) ==
    /\ Write(i, "l159", "l160", "status", "completed")
    /\ UNCHANGED <<clock, last_response, dataVars>>

\* main.py:160
SetCompletedMessage(i) ==
    /\ Write(i, "l160", "export", "message", "Training completed successfully")
    /\ UNCHANGED <<clock, last_response, dataVars>>

\* main.py:163-169 the export subprocess runs to its end; its result is dropped
RunExport(i) ==
    /\ tasks[i].pc = "export"
    /\ tasks' = [tasks EXCEPT ![i].pc = "l178", ![i].export_ran = TRUE]
    /\ UNCHANGED <<training_state, clock, last_response, dataVars>>

\* main.py:171
SetFailed(i) ==
    /\ Write(i, "l171", "l172", "status", "failed")
    /\ UNCHANGED <<clock, last_response, dataVars>>

\* main.py:172
SetFailedMessage(i) ==
    /\ Write(i, "l172", "l178", "message", "Training failed: <stderr>")
    /\ UNCHANGED <<clock, last_response, dataVars>>

\* main.py:175 with the except branch leaving the status as it is
SetErrorKeepsRunning(i) ==
    /\ Write(i, "l175", "l176", "status", training_state["status"])
    /\ UNCHANGED <<clock, last_response, dataVars>>

\* main.py:175
SetError(i) ==
    /\ Write(i, "l175", "l176", "status", "failed")
    /\ UNCHANGED <<clock, last_response, dataVars>>

\* main.py:176
SetErrorMessage(i) ==
    /\ Write(i, "l176", "l178", "message", "Training error: <exception>")
    /\ UNCHANGED <<clock, last_response, dataVars>>

\* main.py:178
SetCompletedAt(i) ==
    /\ Write(i, "l178", "done", "completed_at", clock + 1)
    /\ clock' = clock + 1
    /\ UNCHANGED <<last_response, dataVars>>

(***************************************************************************)
(* The dataset: <root>/<class directory>/<files>.                          *)
(* A directory's content is a bag of file kinds: files of one kind differ  *)
(* in their names only.                                                    *)
(***************************************************************************)

\* the largest number of .jpg images offered in one class directory
MaxCount == 10

\* What the code reads of a directory entry: Path.suffix, Path.is_file(), and
\* whether PIL opens and verifies it (preprocess.py:11-18 is_valid_image).
FileKind(suffix, is_file, decodes) ==
    [suffix |-> suffix, is_file |-> is_file, decodes |-> decodes]

Jpg == FileKind(".jpg", TRUE, TRUE)
UpperPng == FileKind(".PNG", TRUE, TRUE)
Webp == FileKind(".webp", TRUE, TRUE)
CorruptJpg == FileKind(".jpg", TRUE, FALSE)
Txt == FileKind(".txt", TRUE, FALSE)
SubDirJpg == FileKind(".jpg", FALSE, FALSE)   \* a sub-directory named "x.jpg"

FileKinds == {Jpg, UpperPng, Webp, CorruptJpg, Txt, SubDirJpg}

\* str.lower() on the suffixes of FileKinds
Lower(s) ==
    CASE s = ".PNG" -> ".png"
      [] s = ".JPG" -> ".jpg"
      [] OTHER -> s

\* n files of kind k
Files(k, n) == IF n = 0 THEN EmptyBag ELSE (k :> n)

\* The entries of the dataset root: absent, a plain file, or a directory.
Absent == [kind |-> "absent", files |-> EmptyBag]
PlainFile == [kind |-> "file", files |-> Files(Txt, 1)]   \* a stray text file
Dir(files) == [kind |-> "dir", files |-> files]

\* The names an entry of the root may have; config.py:19-24 lists the four
\* disease classes, ".cache" is a hidden directory.
CLASS_NAMES == <<"candidiasis", "tinea_corporis", "tinea_pedis", "tinea_versicolor">>
HiddenName == ".cache"
RootNames == {CLASS_NAMES[i] : i \in DOMAIN CLASS_NAMES} \cup {HiddenName}

\* str.startswith('.') on RootNames
StartsWithDot(name) == name = HiddenName

\* The entries of the root that exist (what Path.iterdir / os.listdir yield).
Listing(d) == {n \in DOMAIN d.entries : d.entries[n].kind # "absent"}

\* Every order in which the operating system may list the names S.
RECURSIVE Orders(_)
Orders(S) ==
    IF S = {} THEN {<<>>}
    ELSE UNION {{<<x>> \o p : p \in Orders(S \ {x})} : x \in S}

(***************************************************************************)
(* validate_dataset (train.py:128-199).                                    *)
(***************************************************************************)

MIN_CLASSES == 2
MIN_IMAGES_PER_CLASS == 3
MIN_TOTAL_IMAGES == 20

\* train.py:145
valid_extensions == {".jpg", ".jpeg", ".png", ".webp", ".bmp", ".gif"}

\* One line of the error message (the lines are joined with "\n", train.py:196).
Line(kind, cls, n, need) == [kind |-> kind, cls |-> cls, n |-> n, need |-> need]

\* The message returned: None, or the lines of the text.
NullMsg == [null |-> TRUE, lines |-> <<>>]
Msg(lines) == [null |-> FALSE, lines |-> lines]

\* train.py:149-150 case-sensitive variant
CountImagesCaseSensitive(files) ==
    BagCardinality([k \in {x \in BagToSet(files) :
                              x.is_file /\ x.suffix \in valid_extensions}
                      |-> files[k]])

\* train.py:149-150 the files of a class directory with an accepted extension
CountImages(files) ==
    BagCardinality([k \in {x \in BagToSet(files) :
                              x.is_file /\ Lower(x.suffix) \in valid_extensions}
                      |-> files[k]])

\* train.py:147-152 class_counts, a dict in the order iterdir listed the root
RECURSIVE CollectCounts(_, _)
CollectCounts(d, order) ==
    IF order = <<>> THEN <<>>
    ELSE LET name == Head(order)
             e == d.entries[name]
             count == CountImages(e.files)
         IN (IF e.kind = "dir" /\ ~StartsWithDot(name) /\ count > 0
             THEN <<[cls |-> name, count |-> count]>>
             ELSE <<>>) \o CollectCounts(d, Tail(order))

\* train.py:159 sum(class_counts.values())
RECURSIVE SumCounts(_)
SumCounts(cc) == IF cc = <<>> THEN 0 ELSE Head(cc).count + SumCounts(Tail(cc))

\* train.py:164-175 no class at all, or fewer than MIN_CLASSES
ClassErrors(cc) ==
    IF Len(cc) = 0
    THEN <<Line("no_images_found", None, 0, 0)>>
         \o [i \in 1..6 |-> Line("expected_layout", None, i, 0)]
    ELSE IF Len(cc) < MIN_CLASSES
    THEN <<Line("insufficient_classes", None, Len(cc), MIN_CLASSES),
           Line("current_classes", cc[1].cls, Len(cc), 0),
           Line("add_two_folders", None, 0, 0)>>
    ELSE <<>>

\* train.py:178 variant: v <= MIN_IMAGES_PER_CLASS
TooFewInclusive(count) == count <= MIN_IMAGES_PER_CLASS

\* train.py:178 v < MIN_IMAGES_PER_CLASS
TooFew(count) == count < MIN_IMAGES_PER_CLASS

\* train.py:178 insufficient_classes, in the order of class_counts
RECURSIVE Insufficient(_)
Insufficient(cc) ==
    IF cc = <<>> THEN <<>>
    ELSE (IF TooFew(Head(cc).count) THEN <<Head(cc)>> ELSE <<>>)
         \o Insufficient(Tail(cc))

\* train.py:178-182 without the num_classes guard of line 179
PerClassErrorsUnguarded(cc) ==
    LET bad == Insufficient(cc)
    IN IF bad # <<>>
       THEN <<Line("too_few_header", None, 0, MIN_IMAGES_PER_CLASS)>>
            \o [i \in 1..Len(bad) |->
                  Line("too_few", bad[i].cls, bad[i].count,
                       MIN_IMAGES_PER_CLASS - bad[i].count)]
       ELSE <<>>

\* train.py:178-182 the classes with too few images, each with its deficit
PerClassErrors(cc) ==
    LET bad == Insufficient(cc)
    IN IF bad # <<>> /\ Len(cc) >= MIN_CLASSES
       THEN <<Line("too_few_header", None, 0, MIN_IMAGES_PER_CLASS)>>
            \o [i \in 1..Len(bad) |->
                  Line("too_few", bad[i].cls, bad[i].count,
                       MIN_IMAGES_PER_CLASS - bad[i].count)]
       ELSE <<>>

\* train.py:185-187 without the num_classes guard of line 185
TotalErrorsUnguarded(cc) ==
    LET total == SumCounts(cc)
    IN IF total < MIN_TOTAL_IMAGES
       THEN <<Line("insufficient_total", None, total, MIN_TOTAL_IMAGES),
              Line("add_more_images", None, total, MIN_TOTAL_IMAGES - total)>>
       ELSE <<>>

\* train.py:185-187 the total-image shortfall
TotalErrors(cc) ==
    LET total == SumCounts(cc)
    IN IF total < MIN_TOTAL_IMAGES /\ Len(cc) >= MIN_CLASSES
       THEN <<Line("insufficient_total", None, total, MIN_TOTAL_IMAGES),
              Line("add_more_images", None, total, MIN_TOTAL_IMAGES - total)>>
       ELSE <<>>

\* train.py:162-187 short-circuit variant: the first failing check ends the list
ErrorsShortCircuit(cc) ==
    IF ClassErrors(cc) # <<>> THEN ClassErrors(cc)
    ELSE IF PerClassErrors(cc) # <<>> THEN PerClassErrors(cc)
    ELSE TotalErrors(cc)

\* train.py:162-187 errors: every failing check appends its lines
Errors(cc) == ClassErrors(cc) \o PerClassErrors(cc) \o TotalErrors(cc)

\* train.py:189-193; `keys` are the keys of the dict
Stats(cc) ==
    [keys |-> {"num_classes", "total_images", "class_counts"},
     num_classes |-> Len(cc), total_images |-> SumCounts(cc), class_counts |-> cc]

\* train.py:141 the {} returned for a missing root
EmptyStats ==
    [keys |-> {}, num_classes |-> 0, total_images |-> 0, class_counts |-> <<>>]

Result(is_valid, error_msg, stats) ==
    [called |-> TRUE, is_valid |-> is_valid, error_msg |-> error_msg, stats |-> stats]

NotCalled ==
    [called |-> FALSE, is_valid |-> FALSE, error_msg |-> NullMsg, stats |-> EmptyStats]

\* train.py:140-141 variant: a missing root falls through to the other checks
NotFoundFallsThrough(cc) ==
    Result(FALSE, Msg(<<Line("not_found", None, 0, 0)>> \o Errors(cc)), Stats(cc))

\* train.py:140-141 the early return for a missing root
NotFound(cc) ==
    Result(FALSE, Msg(<<Line("not_found", None, 0, 0)>>), EmptyStats)

\* train.py:128-199; `order` is the order in which iterdir lists the root
validate_dataset(d, order) ==
    LET cc == IF d.exists THEN CollectCounts(d, order) ELSE <<>>
        errors == Errors(cc)
    IN IF ~d.exists THEN NotFound(cc)
       ELSE IF errors # <<>> THEN Result(FALSE, Msg(errors), Stats(cc))
       ELSE Result(TRUE, NullMsg, Stats(cc))

\* no dataset root
NoDataset == [exists |-> FALSE, entries |-> [n \in RootNames |-> Absent]]

(***************************************************************************)
(* Bounded sets of datasets.                                               *)
(***************************************************************************)

\* at most one file besides the .jpg images of a directory
Extras == {EmptyBag} \cup {Files(k, 1) : k \in FileKinds \ {Jpg}}

ClassDirs(counts, extras) == {Dir(Files(Jpg, n) (+) x) : n \in counts, x \in extras}

DatasetsOver(counts, fourth) ==
    {[exists |-> TRUE,
      entries |-> (CLASS_NAMES[1] :> a) @@ (CLASS_NAMES[2] :> b)
                  @@ (CLASS_NAMES[3] :> c) @@ (CLASS_NAMES[4] :> e)
                  @@ (HiddenName :> h)] :
        a \in {Absent, PlainFile} \cup ClassDirs(counts, Extras),
        b \in {Absent} \cup ClassDirs(counts, {EmptyBag}),
        c \in {Absent} \cup ClassDirs(counts, {EmptyBag}),
        e \in fourth,
        h \in {Absent, Dir(Files(Jpg, MIN_IMAGES_PER_CLASS))}}
    \cup {NoDataset}

\* the datasets given to validate_dataset
Datasets == DatasetsOver(0..MaxCount \cup {MIN_TOTAL_IMAGES}, {Absent})

\* the datasets given to train
TrainDatasets ==
    DatasetsOver({0, MIN_IMAGES_PER_CLASS - 1, MIN_IMAGES_PER_CLASS, MaxCount},
                 {Absent, Dir(Files(Jpg, MaxCount))})

(***************************************************************************)
(* train (train.py:202-326), one action per numbered step of the script.   *)
(***************************************************************************)

\* train.py:224 raise ValueError(error_msg)
ValueError(msg) == [type |-> "ValueError", msg |-> msg, at |-> "validate"]

\* train.py:214-224 step 1 without the raise: an invalid dataset goes on
TrainValidateNoRaise ==
    /\ pc = "validate"
    /\ \E order \in Orders(Listing(fs)) :
          validation' = validate_dataset(fs, order)
    /\ pc' = "clean"
    /\ stdout' = Append(stdout, 1)
    /\ UNCHANGED <<adminVars, prepVars, fit, history, fs, raised, removed, class_indices, model, out, verified>>

\* train.py:214-229 step 1: validate the dataset, raise if it is invalid
TrainValidate ==
    /\ pc = "validate"
    /\ \E order \in Orders(Listing(fs)) :
          LET r == validate_dataset(fs, order)
          IN /\ validation' = r
             /\ IF ~r.is_valid
                THEN pc' = "raised" /\ raised' = ValueError(r.error_msg)
                ELSE pc' = "clean" /\ UNCHANGED raised
    /\ stdout' = Append(stdout, 1)
    /\ UNCHANGED <<adminVars, prepVars, fit, history, fs, removed, class_indices, model, out, verified>>

\* preprocess.py:21-33 with the verification applied to files of an image
\* extension only
CorruptedImagesOnly(files) ==
    [k \in {x \in BagToSet(files) :
               x.is_file /\ ~x.decodes /\ Lower(x.suffix) \in valid_extensions}
        |-> files[k]]

\* preprocess.py:11-18 is_valid_image on the files of a bag
Corrupted(files) ==
    [k \in {x \in BagToSet(files) : x.is_file /\ ~x.decodes} |-> files[k]]

\* preprocess.py:21-33 remove_corrupted_images: os.walk visits the files of the
\* root and of every directory below it, and os.remove deletes those that do
\* not verify.
CleanedEntry(e) ==
    CASE e.kind = "file" -> IF Corrupted(e.files) = EmptyBag THEN e ELSE Absent
      [] e.kind = "dir" -> Dir(e.files (-) Corrupted(e.files))
      [] OTHER -> e

\* preprocess.py:27-32 removed_files
RemovedFrom(e) == IF e.kind = "absent" THEN EmptyBag ELSE Corrupted(e.files)

\* train.py:231-237 step 2
TrainClean ==
    /\ pc = "clean"
    /\ fs' = [fs EXCEPT !.entries = [n \in DOMAIN fs.entries |-> CleanedEntry(fs.entries[n])]]
    /\ removed' = [n \in DOMAIN fs.entries |-> RemovedFrom(fs.entries[n])]
    /\ pc' = "generators"
    /\ stdout' = Append(stdout, 2)
    /\ UNCHANGED <<adminVars, prepVars, fit, history, validation, raised, class_indices, model, out, verified>>

\* sorted() on RootNames: the place of a name in alphabetical order
NameRank(name) ==
    IF name = HiddenName THEN 0
    ELSE CHOOSE i \in DOMAIN CLASS_NAMES : CLASS_NAMES[i] = name

RECURSIVE Sorted(_)
Sorted(S) ==
    IF S = {} THEN <<>>
    ELSE LET first == CHOOSE x \in S : \A y \in S : NameRank(x) <= NameRank(y)
         IN <<first>> \o Sorted(S \ {first})

\* preprocess.py:105-121 flow_from_directory: the classes are the
\* sub-directories of data_dir in alphabetical order
SubDirectories(d) == {n \in DOMAIN d.entries : d.entries[n].kind = "dir"}

\* train.py:239-246 step 3
TrainGenerators ==
    /\ pc = "generators"
    /\ class_indices' = Sorted(SubDirectories(fs))
    /\ pc' = "build"
    /\ stdout' = Append(stdout, 3)
    /\ UNCHANGED <<adminVars, prepVars, fit, history, fs, validation, raised, removed, model, out, verified>>

\* the layers of the MobileNetV2 backbone (include_top=False), numbered from 1
BackboneLayers == 154

\* train.py:31-65 build_model(num_classes): the head ends in Dense(num_classes);
\* base_model.trainable = False (line 50) leaves no backbone layer trainable.
\* trainable is the set of the backbone layers whose trainable flag is True.
build_model(num_classes) ==
    [built |-> TRUE, num_classes |-> num_classes, trainable |-> {}]

\* train.py:248-256 step 4 going on to phase 2 at once
TrainBuildSkipsPhase1 ==
    /\ pc = "build"
    /\ model' = build_model(Len(class_indices))
    /\ pc' = "fit2"
    /\ stdout' = Append(stdout, 4)
    /\ UNCHANGED <<adminVars, prepVars, fit, history, fs, validation, raised, removed, class_indices, out, verified>>

\* train.py:248-256 step 4
TrainBuild ==
    /\ pc = "build"
    /\ model' = build_model(Len(class_indices))
    /\ pc' = "fit1"
    /\ stdout' = Append(stdout, 4)
    /\ UNCHANGED <<adminVars, prepVars, fit, history, fs, validation, raised, removed, class_indices, out, verified>>

\* train.py:79-84 ModelCheckpoint writes the model to model_path
Checkpoint == [state |-> "checkpoint", classes |-> class_indices]

\* train.py:258-269 step 5, phase 1
TrainFit1 ==
    /\ pc = "fit1"
    /\ out' = [out EXCEPT !.keras = Checkpoint]
    /\ pc' = "fit2"
    /\ stdout' = Append(stdout, 5)
    /\ UNCHANGED <<adminVars, prepVars, fit, history, fs, validation, raised, removed, class_indices, model, verified>>

\* train.py:276 the number of leading backbone layers frozen again
FROZEN_LAYERS == 100

\* base_model.layers[:n], as layer numbers
FirstLayers(n) == 1..(IF n < BackboneLayers THEN n ELSE BackboneLayers)

\* train.py:273 alone: base_model.trainable = True
FineTuneAllTrainable == 1..BackboneLayers

\* train.py:273-277 base_model.trainable = True, then trainable = False for
\* each layer of base_model.layers[:100]
FineTuneTrainable == (1..BackboneLayers) \ FirstLayers(FROZEN_LAYERS)

\* train.py:271-291 step 6, phase 2; the checkpoint callback writes only when
\* validation accuracy improved
TrainFit2 ==
    /\ pc = "fit2"
    /\ model' = [model EXCEPT !.trainable = FineTuneTrainable]
    /\ \/ out' = [out EXCEPT !.keras = Checkpoint]
       \/ UNCHANGED out
    /\ pc' = "evaluate"
    /\ stdout' = Append(stdout, 6)
    /\ UNCHANGED <<adminVars, prepVars, fit, history, fs, validation, raised, removed, class_indices, verified>>

\* train.py:306-310 step 7
TrainEvaluate ==
    /\ pc = "evaluate"
    /\ pc' = "plot"
    /\ stdout' = Append(stdout, 7)
    /\ UNCHANGED <<adminVars, prepVars, fit, history, fs, validation, raised, removed, class_indices, model, out, verified>>

\* train.py:312-315 step 8
TrainPlot ==
    /\ pc = "plot"
    /\ out' = [out EXCEPT !.plot = TRUE]
    /\ pc' = "save"
    /\ stdout' = Append(stdout, 8)
    /\ UNCHANGED <<adminVars, prepVars, fit, history, fs, validation, raised, removed, class_indices, model, verified>>

\* train.py:317-326 step 9: model.save(model_path), then train returns
TrainSave ==
    /\ pc = "save"
    /\ out' = [out EXCEPT !.keras = [state |-> "final", classes |-> class_indices]]
    /\ fit' = [fit EXCEPT !.saved = fit.weights]
    /\ pc' = "trained"
    /\ stdout' = Append(stdout, 9)
    /\ UNCHANGED <<adminVars, prepVars, history, fs, validation, raised, removed, class_indices, model, verified>>

(***************************************************************************)
(* The two model.fit calls of train (train.py:263-269, 285-291) unfolded    *)
(* into epochs, with the callbacks of get_callbacks (train.py:68-97).       *)
(* fit.weights names the weights the model holds, fit.saved the weights in  *)
(* the file at model_path, by the epoch that produced them.  ReduceLROn-    *)
(* Plateau and TensorBoard change nothing that is modelled.                 *)
(***************************************************************************)

\* config.py:9, 11
EPOCHS == 50
FINE_TUNE_EPOCHS == 20

\* train.py:73 EarlyStopping(patience=10)
patience == 10

\* the weights a model or a model file holds are named by the epoch that
\* produced them
Weights(phase, epoch) == [phase |-> phase, epoch |-> epoch]

\* no weights, or weights no fit of this run produced
NoWeights == Weights(-1, 0)

\* the weights of MobileNetV2(weights='imagenet') under a fresh head
InitialWeights == Weights(0, 0)

\* the keys of History.history that train reads (train.py:295-298)
Metrics == {"accuracy", "val_accuracy", "loss", "val_loss"}

\* the value Keras logged for a metric at the end of an epoch
MetricValue(metric, phase, epoch) ==
    [metric |-> metric, phase |-> phase, epoch |-> epoch]

\* What an epoch's val_accuracy is to the two callbacks that monitor it.
\* EarlyStopping.best starts afresh with every fit; ModelCheckpoint.best is
\* kept by the callback object from the first fit to the second, so it is
\* never below EarlyStopping.best.  The val_accuracy is
\*   "no_improvement": not above EarlyStopping.best;
\*   "phase_best":     above EarlyStopping.best, below ModelCheckpoint.best;
\*   "phase_tie":      above EarlyStopping.best, equal to ModelCheckpoint.best;
\*   "overall_best":   above both.
\* f.at_top tells that the two bests are equal.
PossibleOutcomes(f) ==
    IF f.top = NoWeights THEN {"overall_best"}
    ELSE IF f.best_weights = NoWeights THEN {"phase_best", "phase_tie", "overall_best"}
    ELSE IF f.at_top THEN {"no_improvement", "overall_best"}
    ELSE {"no_improvement", "phase_best", "phase_tie", "overall_best"}

\* EarlyStopping.on_train_begin: wait, best and best_weights start afresh
FitBegin(f, phase) ==
    [f EXCEPT !.phase = phase, !.wait = 0, !.stop_training = FALSE,
              !.best_weights = NoWeights, !.at_top = FALSE]

\* an epoch's end with an EarlyStopping that never asks to stop
AfterEpochNoStop(f, phase, outcome) ==
    LET e == f.epochs[phase] + 1
        w == Weights(phase, e)
        improved == outcome # "no_improvement"
    IN [f EXCEPT !.epochs[phase] = e,
                 !.weights = w,
                 !.best_weights = IF improved THEN w ELSE @,
                 !.wait = IF improved THEN 0 ELSE f.wait + 1,
                 !.at_top = IF improved THEN outcome # "phase_best" ELSE @,
                 !.saved = IF outcome = "overall_best" THEN w ELSE @,
                 !.top = IF outcome = "overall_best" THEN w ELSE @]

\* One epoch ends: the model holds new weights; EarlyStopping.on_epoch_end
\* keeps the weights of its best epoch and asks to stop after `patience` epochs
\* without improvement; ModelCheckpoint.on_epoch_end (save_best_only=True)
\* saves the model when val_accuracy is above its best.  top names the weights
\* of the epoch with the highest val_accuracy seen since the first fit began.
AfterEpoch(f, phase, outcome) ==
    LET e == f.epochs[phase] + 1
        w == Weights(phase, e)
        improved == outcome # "no_improvement"
        wait == IF improved THEN 0 ELSE f.wait + 1
    IN [f EXCEPT !.epochs[phase] = e,
                 !.weights = w,
                 !.best_weights = IF improved THEN w ELSE @,
                 !.wait = wait,
                 !.at_top = IF improved THEN outcome # "phase_best" ELSE @,
                 !.stop_training = ~improved /\ wait >= patience /\ e > 1,
                 !.saved = IF outcome = "overall_best" THEN w ELSE @,
                 !.top = IF outcome = "overall_best" THEN w ELSE @]

\* restore_best_weights=True: when EarlyStopping stopped the fit the model gets
\* the best weights back; when the fit ran all its epochs it does so in
\* Keras 3 (on_train_end) and not in Keras 2, and the source pins no version.
Restores(f) == IF f.stop_training THEN {TRUE} ELSE BOOLEAN

FitEnd(f, restore) ==
    [f EXCEPT !.weights = IF restore THEN f.best_weights ELSE @]

\* one epoch of a model.fit call
TrainEpoch(phase, at, limit, key) ==
    /\ pc = at
    /\ fit.epochs[phase] < limit
    /\ ~fit.stop_training
    /\ \E outcome \in PossibleOutcomes(fit) :
          /\ fit' = AfterEpoch(fit, phase, outcome)
          /\ out' = IF outcome = "overall_best"
                    THEN [out EXCEPT !.keras = Checkpoint]
                    ELSE out
    /\ history' = [history EXCEPT ![key] =
                      [m \in Metrics |->
                          Append(@[m], MetricValue(m, phase, fit.epochs[phase] + 1))]]
    /\ UNCHANGED <<adminVars, prepVars, stdout, fs, validation, pc, raised, removed,
                   class_indices, model, verified>>

\* train.py:258-263 step 5 up to the start of the first epoch
TrainFitBegin1 ==
    /\ pc = "fit1"
    /\ fit' = [FitBegin(fit, 1) EXCEPT !.weights = InitialWeights]
    /\ pc' = "epochs1"
    /\ stdout' = Append(stdout, 5)
    /\ UNCHANGED <<adminVars, prepVars, history, fs, validation, raised, removed,
                   class_indices, model, out, verified>>

\* train.py:263-269 an epoch of phase 1
TrainEpoch1 == TrainEpoch(1, "epochs1", EPOCHS, "history1")

\* train.py:263-269 the first fit returns: EPOCHS epochs ran or EarlyStopping
\* stopped it
TrainFitEnd1 ==
    /\ pc = "epochs1"
    /\ fit.epochs[1] = EPOCHS \/ fit.stop_training
    /\ \E restore \in Restores(fit) : fit' = FitEnd(fit, restore)
    /\ pc' = "fit2"
    /\ UNCHANGED <<adminVars, prepVars, stdout, history, fs, validation, raised,
                   removed, class_indices, model, out, verified>>

\* train.py:271-285 step 6 up to the start of the first fine-tuning epoch
TrainFitBegin2 ==
    /\ pc = "fit2"
    /\ model' = [model EXCEPT !.trainable = FineTuneTrainable]
    /\ fit' = FitBegin(fit, 2)
    /\ pc' = "epochs2"
    /\ stdout' = Append(stdout, 6)
    /\ UNCHANGED <<adminVars, prepVars, history, fs, validation, raised, removed,
                   class_indices, out, verified>>

\* train.py:285-291 an epoch of phase 2
TrainEpoch2 == TrainEpoch(2, "epochs2", FINE_TUNE_EPOCHS, "history2")

\* train.py:293-299 the lists of the second history after those of the first,
\* in the wrong order
CombinedHistoryReversed(h1, h2) == [m \in Metrics |-> h2[m] \o h1[m]]

\* train.py:293-299 combined_history
combined_history(h1, h2) == [m \in Metrics |-> h1[m] \o h2[m]]

\* train.py:285-304 the second fit returns and the histories are combined
TrainFitEnd2 ==
    /\ pc = "epochs2"
    /\ fit.epochs[2] = FINE_TUNE_EPOCHS \/ fit.stop_training
    /\ \E restore \in Restores(fit) : fit' = FitEnd(fit, restore)
    /\ history' = [history EXCEPT !.combined =
                      combined_history(history.history1, history.history2)]
    /\ pc' = "evaluate"
    /\ UNCHANGED <<adminVars, prepVars, stdout, fs, validation, raised, removed,
                   class_indices, model, out, verified>>

(***************************************************************************)
(* A call of one of the steps after validation raises.  train has no        *)
(* try/except (train.py:202-326): the exception ends the script.  The step  *)
(* raises before it has written anything.                                   *)
(***************************************************************************)

Exception(step) == [type |-> "Exception", msg |-> NullMsg, at |-> step]

\* the values of pc at which a library call can raise
FailableSteps ==
    {"clean", "generators", "build", "fit1", "epochs1", "fit2", "epochs2",
     "evaluate", "plot", "save"}

\* the number train.py prints before the call that is about to be made at pc;
\* inside a fit the number was printed when the phase began
Announced(at) ==
    CASE at = "clean" -> <<2>>
      [] at = "generators" -> <<3>>
      [] at = "build" -> <<4>>
      [] at = "fit1" -> <<5>>
      [] at = "fit2" -> <<6>>
      [] at = "evaluate" -> <<7>>
      [] at = "plot" -> <<8>>
      [] at = "save" -> <<9>>
      [] OTHER -> <<>>

\* train.py:231-320 a failing step that still saves the model on its way out
TrainStepRaisesAfterSave ==
    /\ pc \in FailableSteps
    /\ raised' = Exception(pc)
    /\ out' = [out EXCEPT !.keras = [state |-> "final", classes |-> class_indices]]
    /\ fit' = [fit EXCEPT !.saved = fit.weights]
    /\ pc' = "raised"
    /\ stdout' = stdout \o Announced(pc)
    /\ UNCHANGED <<adminVars, prepVars, history, fs, validation, removed,
                   class_indices, model, verified>>

\* train.py:231-320 a call of the step at pc raises and train ends
TrainStepRaises ==
    /\ pc \in FailableSteps
    /\ raised' = Exception(pc)
    /\ pc' = "raised"
    /\ stdout' = stdout \o Announced(pc)
    /\ UNCHANGED <<adminVars, prepVars, fit, history, fs, validation, removed,
                   class_indices, model, out, verified>>

(***************************************************************************)
(* export_all (export_tflite.py:114-148), run on the saved model once      *)
(* train.py exited with return code 0 (main.py:158-169).                   *)
(***************************************************************************)

\* main.py:163-169 run_training starts the export script once it stands at
\* the export call
StartExport ==
    /\ pc = "trained"
    /\ \E i \in DOMAIN tasks : tasks[i].pc = "export"
    /\ pc' = "convert_float16"
    /\ UNCHANGED <<adminVars, prepVars, stdout, fit, history, fs, validation, raised, removed, class_indices, model, out, verified>>

ConversionError(artifact) == [type |-> "ConversionError", msg |-> NullMsg, at |-> artifact]

\* export_tflite.py:11-50 convert_to_tflite(keras_model_path, output_path, quantize):
\* converter.convert() returns the artifact or raises; the file is written only
\* after it returned.
convert_to_tflite(artifact, next_pc) ==
    \/ /\ out' = [out EXCEPT ![artifact] =
                     [state |-> "written", classes |-> out.keras.classes]]
       /\ pc' = next_pc
       /\ UNCHANGED raised
    \/ /\ raised' = ConversionError(artifact)
       /\ pc' = "export_raised"
       /\ UNCHANGED out

\* export_tflite.py:122-124
ConvertFloat16 ==
    /\ pc = "convert_float16"
    /\ convert_to_tflite("tflite", "convert_quant")
    /\ UNCHANGED <<adminVars, prepVars, stdout, fit, history, fs, validation, removed, class_indices, model, verified>>

\* export_tflite.py:128-130
ConvertQuant ==
    /\ pc = "convert_quant"
    /\ convert_to_tflite("quant", "labels")
    /\ UNCHANGED <<adminVars, prepVars, stdout, fit, history, fs, validation, removed, class_indices, model, verified>>

\* export_tflite.py:53-60 create_labels_file: one line per name of CLASS_NAMES
create_labels_file == [written |-> TRUE, lines |-> CLASS_NAMES]

\* export_tflite.py:134-135
CreateLabels ==
    /\ pc = "labels"
    /\ out' = [out EXCEPT !.labels = create_labels_file]
    /\ pc' = "verify"
    /\ UNCHANGED <<adminVars, prepVars, stdout, fit, history, fs, validation, raised, removed, class_indices, model, verified>>

\* export_tflite.py:63-111 verify_tflite_model(tflite_path): the interpreter
\* runs the artifact on np.random.randn(*input_shape); the shape of the output
\* and the sum of its entries are printed, compared with nothing, and the
\* function ends with "TFLite model verification passed!".  The output has one
\* entry per output of the converted model; whether its entries sum to 1 is up
\* to the artifact.
verify_tflite_model(artifact, sums_to_one) ==
    [artifact |-> artifact,
     output_len |-> Len(out[artifact].classes),
     sums_to_one |-> sums_to_one,
     passed |-> TRUE]

\* export_tflite.py:139-148 verify_tflite_model(float16_path), "Export complete!"
VerifyAndComplete ==
    /\ pc = "verify"
    /\ \E sums_to_one \in BOOLEAN :
          verified' = verified \cup {verify_tflite_model("tflite", sums_to_one)}
    /\ pc' = "exported"
    /\ UNCHANGED <<adminVars, prepVars, stdout, fit, history, fs, validation, raised, removed, class_indices, model, out>>

(***************************************************************************)
(* run_training around the two scripts (main.py:147-178): subprocess.run    *)
(* blocks until the script has exited or, for train.py, until the timeout   *)
(* expired.                                                                 *)
(***************************************************************************)

\* the steps of train.py (train.py:214-320), by the value of pc before them
TrainSteps ==
    {"validate", "clean", "generators", "build", "fit1", "epochs1", "fit2",
     "epochs2", "evaluate", "plot", "save"}

\* main.py:155, 174 timeout=3600 treated as a normal exit of train.py
TrainTimesOutAsExit(i) ==
    /\ tasks[i].pc = "train"
    /\ pc \in TrainSteps
    /\ tasks' = [tasks EXCEPT ![i].outcome = "timeout", ![i].pc = "l159"]
    /\ pc' = "trained"
    /\ UNCHANGED <<training_state, clock, last_response, fs, validation, raised,
                   removed, class_indices, model, out, verified, stdout, fit,
                   history, prepVars>>

\* main.py:149-156, 174 the timeout expires while train.py is at one of its
\* steps: subprocess.run kills the script and raises TimeoutExpired
TrainTimesOut(i) ==
    /\ tasks[i].pc = "train"
    /\ pc \in TrainSteps
    /\ tasks' = [tasks EXCEPT ![i].outcome = "timeout", ![i].pc = "l175"]
    /\ pc' = "killed"
    /\ UNCHANGED <<training_state, clock, last_response, fs, validation, raised,
                   removed, class_indices, model, out, verified, stdout, fit,
                   history, prepVars>>

\* main.py:149-158, 170 subprocess.run returns once train.py has exited: with
\* return code 0 after train returned, with return code 1 after it raised
TrainReturns(i) ==
    /\ tasks[i].pc = "train"
    /\ pc \in {"trained", "raised"}
    /\ tasks' = IF pc = "trained"
                THEN [tasks EXCEPT ![i].outcome = "rc0", ![i].pc = "l159"]
                ELSE [tasks EXCEPT ![i].outcome = "rc1", ![i].pc = "l171"]
    /\ UNCHANGED <<training_state, clock, last_response, dataVars>>

\* main.py:163-169 subprocess.run returns once export_tflite.py has exited,
\* whatever its return code
ExportReturns(i) ==
    /\ tasks[i].pc = "export"
    /\ pc \in {"exported", "export_raised"}
    /\ tasks' = [tasks EXCEPT ![i].pc = "l178", ![i].export_ran = TRUE]
    /\ UNCHANGED <<training_state, clock, last_response, dataVars>>

(***************************************************************************)
(* Initial values.                                                         *)
(***************************************************************************)

NotRaised == [type |-> None, msg |-> NullMsg, at |-> None]

NoFile == [state |-> "absent", classes |-> <<>>]

EmptyOut ==
    [keras |-> NoFile, plot |-> FALSE, tflite |-> NoFile, quant |-> NoFile,
     labels |-> [written |-> FALSE, lines |-> <<>>]]

NoModel == [built |-> FALSE, num_classes |-> 0, trainable |-> {}]

NoneRemoved == [n \in RootNames |-> EmptyBag]

AdminInit ==
    /\ training_state = InitialTrainingState
    /\ tasks = <<>>
    /\ clock = 0
    /\ last_response = None

NoFit ==
    [phase |-> 0, epochs |-> <<0, 0>>, wait |-> 0, stop_training |-> FALSE,
     best_weights |-> NoWeights, at_top |-> FALSE, weights |-> NoWeights,
     saved |-> NoWeights, top |-> NoWeights]

EmptyHistory == [m \in Metrics |-> <<>>]

NoHistory ==
    [history1 |-> EmptyHistory, history2 |-> EmptyHistory, combined |-> EmptyHistory]

TrainIdle ==
    /\ raised = NotRaised
    /\ removed = NoneRemoved
    /\ class_indices = <<>>
    /\ model = NoModel
    /\ out = EmptyOut
    /\ verified = {}
    /\ stdout = <<>>
    /\ fit = NoFit
    /\ history = NoHistory

NoImage == [format |-> None, frames |-> 0, pixels |-> <<>>]

NoTensor == [shape |-> <<>>, row |-> <<>>]

PrepIdle ==
    /\ image = NoImage
    /\ by_path = NoTensor
    /\ by_bytes = NoTensor

(***************************************************************************)
(* The admin layer alone.                                                  *)
(***************************************************************************)

Init ==
    /\ AdminInit
    /\ fs = NoDataset
    /\ validation = NotCalled
    /\ pc = "idle"
    /\ TrainIdle
    /\ PrepIdle

Next ==
    \/ start_training
    \/ \E i \in DOMAIN tasks : SetRunning(i)
    \/ \E i \in DOMAIN tasks : SetRunningMessage(i)
    \/ \E i \in DOMAIN tasks : SetStartedAt(i)
    \/ \E i \in DOMAIN tasks : TrainSubprocessEnds(i)
    \/ \E i \in DOMAIN tasks : SetCompleted(i)
    \/ \E i \in DOMAIN tasks : SetCompletedMessage(i)
    \/ \E i \in DOMAIN tasks : RunExport(i)
    \/ \E i \in DOMAIN tasks : SetFailed(i)
    \/ \E i \in DOMAIN tasks : SetFailedMessage(i)
    \/ \E i \in DOMAIN tasks : SetError(i)
    \/ \E i \in DOMAIN tasks : SetErrorMessage(i)
    \/ \E i \in DOMAIN tasks : SetCompletedAt(i)

Spec == Init /\ [][Next]_vars

\* A step of run_training by task i other than waiting for the export script:
\* the threadpool runs every task that was added, every assignment is carried
\* out, and the train subprocess exits or is cut off after 3600 s
\* (main.py:155). The export subprocess has no timeout (main.py:163-169).
TaskStep(i) ==
    /\ i \in DOMAIN tasks
    /\ \/ SetRunning(i)
       \/ SetRunningMessage(i)
       \/ SetStartedAt(i)
       \/ TrainSubprocessEnds(i)
       \/ SetCompleted(i)
       \/ SetCompletedMessage(i)
       \/ SetFailed(i)
       \/ SetFailedMessage(i)
       \/ SetError(i)
       \/ SetErrorMessage(i)
       \/ SetCompletedAt(i)

\* the admin layer with every added task making progress
SpecFair == Spec /\ \A i \in 1..MaxTasks : WF_vars(TaskStep(i))

(***************************************************************************)
(* validate_dataset alone, on every dataset of Datasets.                   *)
(***************************************************************************)

InitValidate ==
    /\ AdminInit
    /\ fs \in Datasets
    /\ validation = NotCalled
    /\ pc = "idle"
    /\ TrainIdle
    /\ PrepIdle

\* one call of validate_dataset(data_dir)
ValidateDataset ==
    /\ ~validation.called
    /\ \E order \in Orders(Listing(fs)) :
          validation' = validate_dataset(fs, order)
    /\ UNCHANGED <<adminVars, fs, trainVars, prepVars>>

NextValidate == ValidateDataset

SpecValidate == InitValidate /\ [][NextValidate]_vars

(***************************************************************************)
(* One run of run_training: train.py on every dataset of TrainDatasets,     *)
(* then export_tflite.py.                                                  *)
(***************************************************************************)

\* the output directory may hold the model of an earlier run
PreviousModel == [state |-> "previous", classes |-> CLASS_NAMES]

\* main.py:519-529, 143-145 one accepted start request whose task has entered
\* run_training and stands at the call of train.py
RunStarted ==
    /\ training_state = [InitialTrainingState EXCEPT
                            !["status"] = "running",
                            !["message"] = "Training in progress...",
                            !["started_at"] = 1]
    /\ tasks = <<[NewTask EXCEPT !.pc = "train"]>>
    /\ clock = 1
    /\ last_response = "200 Training started"

InitTrain ==
    /\ RunStarted
    /\ fs \in TrainDatasets
    /\ validation = NotCalled
    /\ pc = "validate"
    /\ raised = NotRaised
    /\ removed = NoneRemoved
    /\ class_indices = <<>>
    /\ model = NoModel
    /\ out \in {EmptyOut, [EmptyOut EXCEPT !.keras = PreviousModel]}
    /\ verified = {}
    /\ stdout = <<>>
    /\ fit = NoFit
    /\ history = NoHistory
    /\ PrepIdle

NextTrain ==
    \/ TrainValidate
    \/ TrainClean
    \/ TrainGenerators
    \/ TrainBuild
    \/ TrainFit1
    \/ TrainFit2
    \/ TrainEvaluate
    \/ TrainPlot
    \/ TrainSave
    \/ StartExport
    \/ ConvertFloat16
    \/ ConvertQuant
    \/ CreateLabels
    \/ VerifyAndComplete
    \/ \E i \in DOMAIN tasks : TrainTimesOut(i)
    \/ \E i \in DOMAIN tasks : TrainReturns(i)
    \/ \E i \in DOMAIN tasks : ExportReturns(i)
    \/ \E i \in DOMAIN tasks : SetCompleted(i)
    \/ \E i \in DOMAIN tasks : SetCompletedMessage(i)
    \/ \E i \in DOMAIN tasks : SetFailed(i)
    \/ \E i \in DOMAIN tasks : SetFailedMessage(i)
    \/ \E i \in DOMAIN tasks : SetError(i)
    \/ \E i \in DOMAIN tasks : SetErrorMessage(i)
    \/ \E i \in DOMAIN tasks : SetCompletedAt(i)

SpecTrain == InitTrain /\ [][NextTrain]_vars

(***************************************************************************)
(* train.py run from the command line (train.py:329-335), the two fits      *)
(* unfolded into epochs.                                                    *)
(***************************************************************************)

\* two or three classes of MaxCount images, one with a file cleaning removes
FitDatasets ==
    {[exists |-> TRUE,
      entries |-> (CLASS_NAMES[1] :> Dir(Files(Jpg, MaxCount)))
                  @@ (CLASS_NAMES[2] :> Dir(Files(Jpg, MaxCount)))
                  @@ (CLASS_NAMES[3] :> c) @@ (CLASS_NAMES[4] :> Absent)
                  @@ (HiddenName :> Absent)] :
        c \in {Absent, Dir(Files(Jpg, MaxCount) (+) Files(CorruptJpg, 1))}}

InitFit ==
    /\ AdminInit
    /\ fs \in FitDatasets
    /\ validation = NotCalled
    /\ pc = "validate"
    /\ raised = NotRaised
    /\ removed = NoneRemoved
    /\ class_indices = <<>>
    /\ model = NoModel
    /\ out \in {EmptyOut, [EmptyOut EXCEPT !.keras = PreviousModel]}
    /\ verified = {}
    /\ stdout = <<>>
    /\ fit = NoFit
    /\ history = NoHistory
    /\ PrepIdle

NextFit ==
    \/ TrainValidate
    \/ TrainClean
    \/ TrainGenerators
    \/ TrainBuild
    \/ TrainFitBegin1
    \/ TrainEpoch1
    \/ TrainFitEnd1
    \/ TrainFitBegin2
    \/ TrainEpoch2
    \/ TrainFitEnd2
    \/ TrainEvaluate
    \/ TrainPlot
    \/ TrainSave
    \/ TrainStepRaises

SpecFit == InitFit /\ [][NextFit]_vars

(***************************************************************************)
(* The two preprocessing functions (preprocess.py:36-70) on one source      *)
(* image.  An image is modelled by one row of grey pixels: every row of the *)
(* picture is this row and the three channels are equal, so a resized       *)
(* picture is again one row repeated.  Pixel values are exact fractions:    *)
(* a resized pixel is kept as its value times Den, a tensor entry as its    *)
(* value times 255 * Den.                                                   *)
(***************************************************************************)

\* config.py:4 IMG_SIZE = (224, 224)
IMG_SIZE == 224

\* the widest source image, in pixels, and the most frames of a GIF
MaxWidth == 3
MaxFrames == 2

PixelValues == {0, 128, 255}

\* formats that both PIL and tf.io.decode_image decode
Formats == {"jpeg", "png", "gif"}

\* only a GIF has more than one frame
Images ==
    {img \in [format : Formats, frames : 1..MaxFrames,
              pixels : UNION {[1..n -> PixelValues] : n \in 1..MaxWidth}] :
        img.format = "gif" \/ img.frames = 1}

\* the denominator of the sample positions: output pixel i (from 1) of a row
\* resized from n pixels samples the source at ((2i - 1) * n - IMG_SIZE) / Den,
\* counted from 0
Den == 2 * IMG_SIZE

\* preprocess.py:47 load_img(image_path, target_size): PIL opens the first
\* frame, converts it to RGB and resizes with Image.resize, whose resampling
\* filter is 'nearest' unless load_img is given an interpolation: output pixel
\* i is the source pixel at floor((i - 0.5) * n / IMG_SIZE)
load_img(img) ==
    LET n == Len(img.pixels)
    IN [i \in 1..IMG_SIZE |-> img.pixels[(((2 * i - 1) * n) \div Den) + 1] * Den]

\* preprocess.py:65 tf.io.decode_image(image_bytes, channels=3): a GIF decodes
\* to a 4-D tensor [frames, height, width, 3] (expand_animations is True by
\* default), every other format to a 3-D tensor [height, width, 3]
decode_image(img) ==
    [leading |-> IF img.format = "gif" THEN <<img.frames>> ELSE <<>>,
     pixels |-> img.pixels]

\* preprocess.py:66 tf.image.resize(img, target_size): method 'bilinear' unless
\* given, half-pixel centres, no antialiasing: the value between the two
\* source pixels around the sample position, both kept inside the row
resize(pixels) ==
    LET n == Len(pixels)
    IN [i \in 1..IMG_SIZE |->
           LET num == (2 * i - 1) * n - IMG_SIZE
               floor == num \div Den
               lerp == num - floor * Den
               ceil == IF lerp > 0 THEN floor + 1 ELSE floor
               lower == IF floor < 0 THEN 0 ELSE floor
               upper == IF ceil > n - 1 THEN n - 1 ELSE ceil
           IN pixels[lower + 1] * Den
                  + (pixels[upper + 1] - pixels[lower + 1]) * lerp]

\* preprocess.py:50, 67 mobilenet_v2.preprocess_input: x / 127.5 - 1
preprocess_input(x) == [i \in DOMAIN x |-> 2 * x[i] - 255 * Den]

\* preprocess.py:36-52 preprocess_image(image_path): img_to_array gives
\* (224, 224, 3), np.expand_dims adds the batch dimension
preprocess_image(img) ==
    [shape |-> <<1, IMG_SIZE, IMG_SIZE, 3>>,
     row |-> preprocess_input(load_img(img))]

\* preprocess.py:55-70 preprocess_image_bytes(image_bytes): resize keeps the
\* leading dimensions of what decode_image returned, tf.expand_dims adds one
preprocess_image_bytes(img) ==
    LET decoded == decode_image(img)
    IN [shape |-> <<1>> \o decoded.leading \o <<IMG_SIZE, IMG_SIZE, 3>>,
        row |-> preprocess_input(resize(decoded.pixels))]

\* a call of preprocess_image on the image's file
PreprocessPath ==
    /\ by_path = NoTensor
    /\ by_path' = preprocess_image(image)
    /\ UNCHANGED <<adminVars, fs, validation, trainVars, image, by_bytes>>

\* a call of preprocess_image_bytes on the image's bytes
PreprocessBytes ==
    /\ by_bytes = NoTensor
    /\ by_bytes' = preprocess_image_bytes(image)
    /\ UNCHANGED <<adminVars, fs, validation, trainVars, image, by_path>>

InitPreprocess ==
    /\ AdminInit
    /\ fs = NoDataset
    /\ validation = NotCalled
    /\ pc = "idle"
    /\ TrainIdle
    /\ image \in Images
    /\ by_path = NoTensor
    /\ by_bytes = NoTensor

NextPreprocess ==
    \/ PreprocessPath
    \/ PreprocessBytes

SpecPreprocess == InitPreprocess /\ [][NextPreprocess]_vars

(***************************************************************************)
(* What the properties below expect of a dataset, stated on the directory  *)
(* tree itself.                                                            *)
(***************************************************************************)

\* the file kinds that are files with an extension among jpg, jpeg, png, webp,
\* bmp, gif in any letter case
AcceptedKinds == {Jpg, UpperPng, Webp, CorruptJpg}

RECURSIVE SumOver(_, _)
SumOver(S, f) ==
    IF S = {} THEN 0
    ELSE LET x == CHOOSE y \in S : TRUE IN f[x] + SumOver(S \ {x}, f)

\* the accepted image files of the root entry `name`
ExpectedCount(name) ==
    IF fs.exists /\ fs.entries[name].kind = "dir" /\ name # HiddenName
    THEN SumOver(AcceptedKinds, [k \in AcceptedKinds |-> CopiesIn(k, fs.entries[name].files)])
    ELSE 0

\* the classes with at least one accepted image
Populated == {n \in RootNames : ExpectedCount(n) >= 1}

ExpectedTotal == SumOver(RootNames, [n \in RootNames |-> ExpectedCount(n)])

MsgLines == validation.error_msg.lines

LinesOfKind(kinds) == {i \in DOMAIN MsgLines : MsgLines[i].kind \in kinds}

PerClassKinds == {"too_few_header", "too_few"}
TotalKinds == {"insufficient_total", "add_more_images"}
ClassKinds == {"insufficient_classes", "current_classes", "add_two_folders"}
NoImagesKinds == {"no_images_found", "expected_layout"}

(***************************************************************************)
(* The properties.                                                         *)
(***************************************************************************)

\* C1: at most one training run is active at any time: while a run is active
\* (accepted and not finished) no second run_training task is added or runs.
\* The code rejects a start request only in status "running", so a request that
\* arrives in status "starting" adds a second task.
C1_AtMostOneActiveRun == Cardinality(ActiveTasks) <= 1

\* C2: for an existing root, validate_dataset returns is_valid = TRUE with a
\* null message exactly when at least 2 classes are populated, each has at
\* least 3 images and the total is at least 20; otherwise is_valid = FALSE with
\* a message.
C2_ValidIffMinimums ==
    (validation.called /\ fs.exists) =>
        IF /\ Cardinality(Populated) >= 2
           /\ \A n \in Populated : ExpectedCount(n) >= 3
           /\ ExpectedTotal >= 20
        THEN validation.is_valid /\ validation.error_msg.null
        ELSE /\ ~validation.is_valid
             /\ ~validation.error_msg.null
             /\ MsgLines # <<>>

\* a dataset of exactly two populated classes was found valid
C2_Witness ==
    /\ validation.called /\ fs.exists
    /\ validation.is_valid
    /\ Cardinality(Populated) = 2

\* C3: for a missing root, validate_dataset returns is_valid = FALSE, a message
\* holding the not-found reason and nothing else, and empty stats.
C3_MissingRootOnlyNotFound ==
    (validation.called /\ ~fs.exists) =>
        /\ ~validation.is_valid
        /\ ~validation.error_msg.null
        /\ Len(MsgLines) = 1
        /\ MsgLines[1].kind = "not_found"
        /\ validation.stats.keys = {}

\* validate_dataset was called on a missing root
C3_Witness == validation.called /\ ~fs.exists /\ ~validation.is_valid

\* C4: with exactly one populated class the result is invalid, the message
\* names that class, and it holds no per-class deficit line and no
\* total-image line, whatever the class's image count.
C4_SingleClassNamed ==
    (validation.called /\ fs.exists /\ Cardinality(Populated) = 1) =>
        /\ ~validation.is_valid
        /\ \E i \in LinesOfKind({"current_classes"}) : Populated = {MsgLines[i].cls}
        /\ \E i \in LinesOfKind({"insufficient_classes"}) : MsgLines[i].n = 1
        /\ LinesOfKind(PerClassKinds \cup TotalKinds) = {}

\* the single class holds at least 20 images
C4_Witness ==
    /\ validation.called /\ fs.exists
    /\ Cardinality(Populated) = 1
    /\ ExpectedTotal >= 20

\* C5: with at least 2 populated classes every failing condition is in the one
\* message: each class with c < 3 images has one line with its deficit 3 - c,
\* a total t < 20 has its line with the shortfall 20 - t, the per-class lines
\* come before the total lines, and nothing else is in the message.
C5_AllFailuresReported ==
    (validation.called /\ fs.exists /\ Cardinality(Populated) >= 2) =>
        LET deficient == {n \in Populated : ExpectedCount(n) < 3}
            tooFew == LinesOfKind({"too_few"})
        IN /\ \A n \in deficient :
                \E i \in tooFew : /\ MsgLines[i].cls = n
                                  /\ MsgLines[i].n = ExpectedCount(n)
                                  /\ MsgLines[i].need = 3 - ExpectedCount(n)
           /\ \A i \in tooFew : MsgLines[i].cls \in deficient
           /\ Cardinality(tooFew) = Cardinality(deficient)
           /\ (deficient # {}) <=> (LinesOfKind({"too_few_header"}) # {})
           /\ \A i \in LinesOfKind({"too_few_header"}) : \A j \in tooFew : i < j
           /\ IF ExpectedTotal < 20
              THEN /\ \E i \in LinesOfKind({"insufficient_total"}) :
                         MsgLines[i].n = ExpectedTotal
                   /\ \E i \in LinesOfKind({"add_more_images"}) :
                         MsgLines[i].need = 20 - ExpectedTotal
              ELSE LinesOfKind(TotalKinds) = {}
           /\ \A i \in LinesOfKind(PerClassKinds) : \A j \in LinesOfKind(TotalKinds) : i < j
           /\ LinesOfKind(ClassKinds \cup NoImagesKinds \cup {"not_found"}) = {}

\* two classes of 2 and 5 images: deficit 1 and shortfall 13 in one message
C5_Witness ==
    /\ validation.called /\ fs.exists
    /\ Cardinality(Populated) = 2
    /\ \E n \in Populated : ExpectedCount(n) = 2
    /\ \E n \in Populated : ExpectedCount(n) = 5
    /\ \E i \in LinesOfKind({"too_few"}) : MsgLines[i].need = 1
    /\ \E i \in LinesOfKind({"add_more_images"}) : MsgLines[i].need = 13

\* C6: with an existing root and no populated class the result is invalid and
\* the message holds the no-images-found reason and the expected layout only:
\* no insufficient-classes, per-class or total-image line.
C6_NoImagesExclusive ==
    (validation.called /\ fs.exists /\ Populated = {}) =>
        /\ ~validation.is_valid
        /\ ~validation.error_msg.null
        /\ MsgLines # <<>>
        /\ MsgLines[1].kind = "no_images_found"
        /\ LinesOfKind({"expected_layout"}) # {}
        /\ \A i \in DOMAIN MsgLines : MsgLines[i].kind \in NoImagesKinds

\* no populated class although the root holds a directory
C6_Witness ==
    /\ validation.called /\ fs.exists /\ Populated = {}
    /\ \E n \in RootNames : fs.entries[n].kind = "dir"
    /\ ~validation.is_valid

\* C7: for an existing root the stats hold one class_counts entry per populated
\* class (non-hidden directory with at least one file of an accepted extension,
\* in any letter case) with that file count, num_classes is the number of
\* entries and total_images the sum of the counts.
C7_StatsMatchTree ==
    (validation.called /\ fs.exists) =>
        LET cc == validation.stats.class_counts
        IN /\ validation.stats.keys = {"num_classes", "total_images", "class_counts"}
           /\ {cc[i].cls : i \in DOMAIN cc} = Populated
           /\ Len(cc) = Cardinality(Populated)
           /\ \A i \in DOMAIN cc : cc[i].count = ExpectedCount(cc[i].cls) /\ cc[i].count >= 1
           /\ validation.stats.num_classes = Len(cc)
           /\ validation.stats.total_images = ExpectedTotal

\* a class populated by an upper-case .PNG file beside a hidden directory of images
C7_Witness ==
    /\ validation.called /\ fs.exists
    /\ \E n \in Populated : CopiesIn(UpperPng, fs.entries[n].files) = 1
    /\ fs.entries[HiddenName].kind = "dir"
    /\ validation.stats.num_classes >= 2

\* C8: when validate_dataset reports the dataset invalid, train raises
\* ValueError with the validator's message before any other step: nothing was
\* removed, no generator or model was built, no epoch ran and the output
\* directory is as it was.
C8_InvalidRaisesBeforeCompute ==
    (validation.called /\ ~validation.is_valid) =>
        /\ pc = "raised"
        /\ raised = ValueError(validation.error_msg)
        /\ removed = NoneRemoved
        /\ class_indices = <<>>
        /\ ~model.built
        /\ out \in {EmptyOut, [EmptyOut EXCEPT !.keras = PreviousModel]}
        /\ verified = {}

\* train raised on an invalid dataset that holds a file cleaning would remove
C8_Witness ==
    /\ pc = "raised"
    /\ validation.called /\ ~validation.is_valid
    /\ \E n \in RootNames : RemovedFrom(fs.entries[n]) # EmptyBag

\* C9: labels.txt has as many lines as the trained model has output classes and
\* line i is the class the training generators gave index i. The code writes
\* the four names of CLASS_NAMES whatever the model was trained on.
C9_LabelsMatchModel ==
    out.labels.written =>
        /\ Len(out.labels.lines) = model.num_classes
        /\ out.labels.lines = class_indices
        /\ out.labels.lines = out.keras.classes

\* C10: a conversion error is fatal to its artifact only: when one conversion
\* fails the other artifact is still produced and the saved Keras model is
\* unmodified. The code lets the error end export_all, so a failed float16
\* conversion leaves the quantized artifact unwritten.
C10_OtherArtifactProduced ==
    (pc = "export_raised" /\ raised.type = "ConversionError") =>
        /\ out[IF raised.at = "tflite" THEN "quant" ELSE "tflite"].state = "written"
        /\ out.keras = [state |-> "final", classes |-> class_indices]

\* C11: before export_all reports the export complete, each of the two
\* converted artifacts (float16 and int8-quantized) has been loaded and run
\* through verify_tflite_model. The code verifies the float16 artifact only.
C11_BothArtifactsVerified ==
    pc = "exported" => {v.artifact : v \in verified} = {"tflite", "quant"}

\* C12: verify_tflite_model gates on what it saw: it reports that verification
\* passed only when the output has one entry per declared class and the entries
\* sum to 1. The code prints both and reports "passed" whatever they are.
C12_PassedOnlyWhenChecksHold ==
    \A v \in verified :
        v.passed => (v.output_len = Len(CLASS_NAMES) /\ v.sums_to_one)

AllowedTransitions ==
    ({"idle", "completed", "failed"} \X {"starting"})
        \cup {<<"starting", "running">>, <<"running", "completed">>,
              <<"running", "failed">>}

\* C14: the status is always one of idle, starting, running, completed, failed
\* and changes only along idle/completed/failed -> starting, starting ->
\* running, running -> completed or failed. With a second start request
\* accepted in status "starting" the second task writes "running" over what
\* the first task left.
C14_OnlyListedTransitions ==
    [][/\ training_state'["status"] \in Statuses
       /\ training_state'["status"] # training_state["status"] =>
              <<training_state["status"], training_state'["status"]>>
                  \in AllowedTransitions]_vars

\* C15: while the epochs of phase 1 run every backbone layer has trainable =
\* False; while the epochs of phase 2 run the first 100 backbone layers have
\* trainable = False and every later backbone layer has trainable = True.
C15_PhaseTrainableFlags ==
    /\ model.trainable \subseteq 1..BackboneLayers
    /\ pc = "epochs1" => \A l \in 1..BackboneLayers : l \notin model.trainable
    /\ pc = "epochs2" =>
          \A l \in 1..BackboneLayers : (l \in model.trainable) <=> (l > 100)

\* a fine-tuning epoch has run with a backbone of more than 100 layers
C15_Witness ==
    /\ pc = "epochs2"
    /\ fit.epochs[2] >= 1
    /\ BackboneLayers > FROZEN_LAYERS
    /\ model.trainable # {}

\* C16: once the histories are combined, the combined history holds for each
\* of accuracy, val_accuracy, loss and val_loss the phase-1 list followed by
\* the phase-2 list: as long as the epochs of both phases together, entry k the
\* metric's value at epoch k of phase 1 and entry n1 + k its value at epoch k
\* of phase 2, and the four lists equally long.
C16_CombinedHistoryConcatenates ==
    pc \in {"evaluate", "plot", "save", "trained"} =>
        LET n1 == fit.epochs[1]
            n2 == fit.epochs[2]
        IN /\ DOMAIN history.combined = Metrics
           /\ \A m \in Metrics :
                 LET c == history.combined[m]
                 IN /\ Len(c) = n1 + n2
                    /\ SubSeq(c, 1, n1) = history.history1[m]
                    /\ SubSeq(c, n1 + 1, n1 + n2) = history.history2[m]
                    /\ \A k \in 1..n1 : c[k] = MetricValue(m, 1, k)
                    /\ \A k \in 1..n2 : c[n1 + k] = MetricValue(m, 2, k)
           /\ \A m1, m2 \in Metrics :
                 Len(history.combined[m1]) = Len(history.combined[m2])

\* the histories were combined after phases of different lengths, the first
\* stopped early
C16_Witness ==
    /\ pc = "evaluate"
    /\ fit.epochs[1] < EPOCHS
    /\ fit.epochs[2] >= 1
    /\ fit.epochs[1] # fit.epochs[2]

\* C17: after train returned, the file at model_path holds the weights of the
\* epoch with the highest val_accuracy seen over both phases. The code ends
\* with model.save(model_path), which puts the weights the model holds then
\* over what the checkpoint callback saved.
C17_FinalFileIsBestCheckpoint ==
    pc = "trained" => fit.saved = fit.top

\* the numbers train.py announces for validate, clean, build, fit phase 1, fit
\* phase 2, evaluate and save
NamedSteps == <<1, 2, 4, 5, 6, 7, 9>>

IsNamedStep(n) == \E k \in DOMAIN NamedSteps : NamedSteps[k] = n

\* the pc values of export_tflite.py once it has started
ExportStarted == {"convert_float16", "convert_quant", "labels", "verify",
                  "exported", "export_raised"}

\* C20: a train run takes validate, clean, build, fit phase 1, fit phase 2,
\* evaluate, save in this order, none skipped and none repeated: at every
\* moment the steps taken so far are the first ones of that list, a run that
\* returned took all of them, and export starts only after save wrote the
\* final model.
C20_StrictStepOrder ==
    LET named == SelectSeq(stdout, IsNamedStep)
    IN /\ Len(named) <= Len(NamedSteps)
       /\ \A k \in DOMAIN named : named[k] = NamedSteps[k]
       /\ \A k \in DOMAIN stdout : stdout[k] = k
       /\ pc \in {"trained"} \cup ExportStarted =>
             /\ named = NamedSteps
             /\ validation.called /\ validation.is_valid
             /\ model.built
             /\ out.keras = [state |-> "final", classes |-> class_indices]
       /\ pc \in ExportStarted =>
             \E i \in DOMAIN tasks : tasks[i].outcome = "rc0"
       /\ (pc \notin {"trained"} \cup ExportStarted) =>
             /\ out.tflite = NoFile /\ out.quant = NoFile
             /\ ~out.labels.written /\ verified = {}

\* export has started after a run that took every step
C20_Witness ==
    /\ pc = "convert_float16"
    /\ stdout = <<1, 2, 3, 4, 5, 6, 7, 8, 9>>
    /\ out.keras.state = "final"

\* two tensor entries (in units of 1 / (255 * Den)) that differ by at most 0.001
Close(a, b) ==
    LET d == IF a >= b THEN a - b ELSE b - a
    IN 1000 * d <= 255 * Den

\* C18: preprocess_image and preprocess_image_bytes applied to the same source
\* image return tensors of the same shape whose entries are equal within
\* tolerance. The code resizes with 'nearest' on the path side and with
\* 'bilinear' on the bytes side.
C18_PathAndBytesAgree ==
    (by_path # NoTensor /\ by_bytes # NoTensor) =>
        /\ by_path.shape = by_bytes.shape
        /\ \A i \in 1..IMG_SIZE : Close(by_path.row[i], by_bytes.row[i])

\* a tensor of shape (1, 224, 224, 3) with every entry in [-1, 1]
WellFormedTensor(t) ==
    /\ t.shape = <<1, 224, 224, 3>>
    /\ Len(t.row) = 224
    /\ \A i \in DOMAIN t.row : -(255 * Den) <= t.row[i] /\ t.row[i] <= 255 * Den

\* C19: for every decodable image both functions return a tensor of shape
\* (1, 224, 224, 3) with every entry in [-1, 1], a channel value v mapped to
\* v / 127.5 - 1. For the bytes of a GIF the code returns a 5-D tensor.
C19_ShapeAndRange ==
    /\ by_path # NoTensor =>
          /\ WellFormedTensor(by_path)
          /\ \A i \in DOMAIN by_path.row :
                \E v \in PixelValues : by_path.row[i] = (2 * v - 255) * Den
    /\ by_bytes # NoTensor => WellFormedTensor(by_bytes)

\* C21: the run-status record shows completed only after the export step has
\* finished. The code writes completed as soon as train.py returned 0, before
\* it starts export_tflite.py.
C21_CompletedOnlyAfterExport ==
    training_state["status"] = "completed" =>
        /\ \E i \in DOMAIN tasks : tasks[i].export_ran
        /\ pc \in {"exported", "export_raised"}

\* C22: a failure of the final evaluation is non-fatal: when train has ended
\* after model.evaluate raised, the training-curve plot and the final model
\* are persisted all the same. The code lets the exception end train before
\* steps 8 and 9.
C22_EvaluateFailureNonFatal ==
    (pc \in {"raised", "trained"} /\ raised.at = "evaluate") =>
        /\ out.plot
        /\ out.keras.state = "final"

C25_PhasesTerminate ==
    LET ran == IF fit.phase = 0 THEN 0 ELSE fit.epochs[fit.phase]
    IN /\ fit.epochs[1] <= 50
       /\ fit.epochs[2] <= 20
       /\ fit.wait <= 10
       /\ pc \in {"epochs1", "epochs2"} =>
             /\ fit.stop_training <=> fit.wait = 10
             /\ ran >= 1 => fit.best_weights = Weights(fit.phase, ran - fit.wait)
       /\ pc = "fit2" => (fit.stop_training \/ fit.epochs[1] = 50)
       /\ pc = "evaluate" => (fit.stop_training \/ fit.epochs[2] = 20)
       /\ (pc \in {"fit2", "evaluate"} /\ fit.stop_training) =>
             /\ fit.wait = 10
             /\ fit.weights = Weights(fit.phase, ran - 10)
             /\ fit.weights = fit.best_weights

\* both phases were stopped early, the second after its best epoch
C25_Witness ==
    /\ pc = "evaluate"
    /\ fit.stop_training
    /\ fit.epochs[1] < EPOCHS
    /\ fit.epochs[2] < FINE_TUNE_EPOCHS
    /\ fit.weights = Weights(2, fit.epochs[2] - patience)

\* C24: remove_corrupted_images deletes exactly the files under the root that
\* fail verification, whatever their extension and wherever they lie, leaves
\* every other file and every directory as it was, goes on after a bad file,
\* and returns exactly what it deleted; afterwards no file under the root
\* fails verification.
C24_CleanRemovesExactlyInvalid ==
    [][(pc = "clean" /\ pc' = "generators") =>
          \A n \in RootNames :
             LET before == fs.entries[n]
                 after == fs'.entries[n]
             IN /\ \A k \in FileKinds :
                      /\ CopiesIn(k, removed'[n]) =
                            IF k.is_file /\ ~k.decodes
                            THEN CopiesIn(k, before.files) ELSE 0
                      /\ CopiesIn(k, after.files) =
                            CopiesIn(k, before.files) - CopiesIn(k, removed'[n])
                /\ \A k \in BagToSet(after.files) : ~k.is_file \/ k.decodes
                /\ before.kind = "dir" => after.kind = "dir"
                /\ before.kind = "absent" => after = before]_vars

\* cleaning removed a corrupt image from a class directory that keeps its good
\* images, and a text file elsewhere or nothing else
C24_Witness ==
    /\ pc = "generators"
    /\ \E n \in RootNames :
          /\ CopiesIn(CorruptJpg, removed[n]) = 1
          /\ CopiesIn(Jpg, fs.entries[n].files) >= 1
          /\ CopiesIn(CorruptJpg, fs.entries[n].files) = 0

\* C26: when the data generators are about to be created, after cleaning, every
\* class validate_dataset counted still has the files it was counted with and
\* the dataset still meets the minimums (2 classes, 3 images in each, 20 in
\* all). The validator counts files by extension, cleaning removes those that
\* do not verify.
C26_MinimumsHoldAfterClean ==
    pc = "generators" =>
        LET cc == validation.stats.class_counts
        IN /\ \A i \in DOMAIN cc : ExpectedCount(cc[i].cls) = cc[i].count
           /\ Cardinality(Populated) >= 2
           /\ \A i \in DOMAIN cc : ExpectedCount(cc[i].cls) >= 3
           /\ ExpectedTotal >= 20

\* C27: the class count given to build_model equals the num_classes that
\* validate_dataset reported, and the generators' classes are the validator's
\* classes. The generators take every sub-directory of the root, hidden and
\* empty ones included; the validator skips both.
C27_ClassesAgreeWithValidator ==
    model.built =>
        LET cc == validation.stats.class_counts
        IN /\ model.num_classes = validation.stats.num_classes
           /\ {class_indices[i] : i \in DOMAIN class_indices} =
                 {cc[i].cls : i \in DOMAIN cc}

\* C28: completed_at is set exactly when the status is completed or failed.
\* The code writes completed before the export and completed_at after it, and
\* a later start request leaves the earlier run's completed_at in place.
C28_CompletedAtIffTerminal ==
    (training_state["completed_at"] # NoTime) <=>
        (training_state["status"] \in {"completed", "failed"})

\* C29: with every added task making progress and the train subprocess
\* exiting or being cut off, a status of starting or running is followed by a
\* status of completed or failed, and every added task comes to write one.
C29_TerminalStatusReached ==
    /\ (training_state["status"] \in {"starting", "running"})
          ~> (training_state["status"] \in {"completed", "failed"})
    /\ \A i \in 1..MaxTasks :
          (i \in DOMAIN tasks)
             ~> (i \in DOMAIN tasks /\ tasks[i].outcome # None
                 /\ tasks[i].pc \notin {"l159", "l171", "l175"})

\* a run cut off by the timeout has returned with the status failed
C29_Witness ==
    \E i \in DOMAIN tasks :
        /\ tasks[i].pc = "done"
        /\ tasks[i].outcome = "timeout"
        /\ training_state["status"] = "failed"

====
